---- MODULE Spec2Model ----
(***************************************************************************)
(* Model of the transaction store (src/src/store/useTransactionStore.ts)   *)
(* and of the transaction form (src/unnamed/part_000).                     *)
(*                                                                         *)
(* JavaScript values are encoded as follows.  An optional value is a       *)
(* sequence: <<>> is undefined, <<v>> is the value v.  Numbers are         *)
(* integers (every sum the store computes on them is then exact).  A form  *)
(* field is a record whose k field says undefined / NaN / number.          *)
(***************************************************************************)
EXTENDS Integers, Sequences, FiniteSets, TLC

VARIABLES cash, bank, transactions, history, call, trace, result, form, submitted

vars == <<cash, bank, transactions, history, call, trace, result, form, submitted>>

storeVars == <<cash, bank, transactions, history, call, trace, result>>

formVars == <<form, submitted>>

----------------------------------------------------------------------------
(* Values *)

Undefined == <<>>

Some(v) == <<v>>

CurrencyOperations ==
  {"ARS_IN", "ARS_OUT", "USDT_BUY", "USDT_SELL", "USDT_IN", "USDT_OUT",
   "USD_IN", "USD_OUT", "USD_BUY", "USD_SELL"}

NO_BANK_OPERATIONS == {"USDT_IN", "USDT_OUT", "USD_IN", "USD_OUT"}

RequiresBank(currencyOperation) == currencyOperation \notin NO_BANK_OPERATIONS

IncludesBuy(currencyOperation) == currencyOperation \in {"USDT_BUY", "USD_BUY"}

IncludesSell(currencyOperation) == currencyOperation \in {"USDT_SELL", "USD_SELL"}

Currencies == {"ARS", "USD", "USDT"}

BankIds == {"B1", "B2"}

\* the bankId values a caller passes: absent, the empty string, or a bank
BankIdValues == {Undefined, Some("")} \cup {Some(b) : b \in BankIds}

Amounts == {-1, 0, 2}

ExchangeRates == {Undefined, Some(0), Some(2)}

CalculatedAmounts == {Undefined, Some(0), Some(3)}

Dates == {1, 2, 3}

QueryDates == {0, 1, 2, 3, 4}

Ids == {"r1", "r2"}

\* bounds of the exploration
MaxPriorPosts == 1

MaxLog == 3

\* JavaScript truthiness of an optional number / an optional string
Truthy(x) == x # Undefined /\ x[1] # 0

TruthyString(x) == x # Undefined /\ x[1] # ""

----------------------------------------------------------------------------
(* The balance stores (useCajaStore is not among the sources: the two      *)
(* updaters add a signed delta to one entry, as the specification says).   *)

updateBalance(c, currency, delta) ==
  [c EXCEPT ![currency] = @ + delta]

updateBankBalance(b, bankId, currency, delta) ==
  IF bankId \in DOMAIN b
  THEN [b EXCEPT ![bankId][currency] = @ + delta]
  ELSE b

----------------------------------------------------------------------------
(* addTransaction: the side effects of each case of the switch, in the     *)
(* order the code performs them.                                           *)

CashEffect(currency, delta) ==
  [store |-> "cash", currency |-> currency, delta |-> delta]

BankEffect(bankId, currency, delta) ==
  [store |-> "bank", bankId |-> bankId, currency |-> currency, delta |-> delta]

LogEffect == [store |-> "log"]

ArsIn_BankCredited(bankId, amount) ==
  << CashEffect("ARS", amount), BankEffect(bankId, "ARS", amount) >>

ArsIn(bankId, amount) ==
  << CashEffect("ARS", amount), BankEffect(bankId, "ARS", -amount) >>

ArsOut(bankId, amount) ==
  << CashEffect("ARS", -amount), BankEffect(bankId, "ARS", amount) >>

UsdtBuy(bankId, amount, calculatedAmount) ==
  << CashEffect("ARS", -amount), BankEffect(bankId, "ARS", -amount) >>
  \o (IF Truthy(calculatedAmount)
      THEN << CashEffect("USDT", calculatedAmount[1]) >>
      ELSE << >>)

UsdtSell_FallsBackToAmount(bankId, amount, calculatedAmount) ==
  << CashEffect("USDT", -amount) >>
  \o (IF Truthy(calculatedAmount)
      THEN << CashEffect("ARS", calculatedAmount[1]),
              BankEffect(bankId, "ARS", calculatedAmount[1]) >>
      ELSE << CashEffect("ARS", amount), BankEffect(bankId, "ARS", amount) >>)

UsdtSell(bankId, amount, calculatedAmount) ==
  << CashEffect("USDT", -amount) >>
  \o (IF Truthy(calculatedAmount)
      THEN << CashEffect("ARS", calculatedAmount[1]),
              BankEffect(bankId, "ARS", calculatedAmount[1]) >>
      ELSE << >>)

UsdtIn_TouchesBank(bankId, amount) ==
  << CashEffect("USDT", amount), BankEffect(bankId, "ARS", -amount) >>

UsdtIn(bankId, amount) ==
  << CashEffect("USDT", amount) >>

UsdtOut(bankId, amount) ==
  << CashEffect("USDT", -amount) >>

UsdIn(bankId, amount) ==
  << CashEffect("USD", amount), BankEffect(bankId, "USD", -amount) >>

UsdOut(bankId, amount) ==
  << CashEffect("USD", -amount), BankEffect(bankId, "USD", amount) >>

UsdBuy(bankId, amount, calculatedAmount) ==
  << CashEffect("ARS", -amount), BankEffect(bankId, "ARS", -amount) >>
  \o (IF Truthy(calculatedAmount)
      THEN << CashEffect("USD", calculatedAmount[1]) >>
      ELSE << >>)

UsdSell(bankId, amount, calculatedAmount) ==
  << CashEffect("USD", -amount) >>
  \o (IF Truthy(calculatedAmount)
      THEN << CashEffect("ARS", calculatedAmount[1]),
              BankEffect(bankId, "ARS", calculatedAmount[1]) >>
      ELSE << >>)

\* switch (transaction.currencyOperation); bankId is truthy here
SwitchEffects(t) ==
  LET bankId == t.bankId[1]
      amount == t.amount
      calculatedAmount == t.calculatedAmount
  IN CASE t.currencyOperation = "ARS_IN" -> ArsIn(bankId, amount)
       [] t.currencyOperation = "ARS_OUT" -> ArsOut(bankId, amount)
       [] t.currencyOperation = "USDT_BUY" -> UsdtBuy(bankId, amount, calculatedAmount)
       [] t.currencyOperation = "USDT_SELL" -> UsdtSell(bankId, amount, calculatedAmount)
       [] t.currencyOperation = "USDT_IN" -> UsdtIn(bankId, amount)
       [] t.currencyOperation = "USDT_OUT" -> UsdtOut(bankId, amount)
       [] t.currencyOperation = "USD_IN" -> UsdIn(bankId, amount)
       [] t.currencyOperation = "USD_OUT" -> UsdOut(bankId, amount)
       [] t.currencyOperation = "USD_BUY" -> UsdBuy(bankId, amount, calculatedAmount)
       [] t.currencyOperation = "USD_SELL" -> UsdSell(bankId, amount, calculatedAmount)
       [] OTHER -> << >>

HandlerEffects_LogFirst(t) == << LogEffect >> \o SwitchEffects(t)

\* the switch, then set(...) on the transaction list
HandlerEffects(t) == SwitchEffects(t) \o << LogEffect >>

BankMissing_OnlyUndefined(bankId) == bankId = Undefined

\* if (!bankId)
BankMissing(bankId) == ~TruthyString(bankId)

Prepend_AtTheEnd(newTransaction, list) == Append(list, newTransaction)

\* [newTransaction, ...state.transactions]
Prepend(newTransaction, list) == << newTransaction >> \o list

\* { ...transaction, id }
NewTransaction(t, id) ==
  [id |-> id, date |-> t.date, currencyOperation |-> t.currencyOperation,
   bankId |-> t.bankId, amount |-> t.amount, exchangeRate |-> t.exchangeRate,
   calculatedAmount |-> t.calculatedAmount]

\* the state the stores are left in once the effects es have run in order
RECURSIVE Apply(_, _, _)
Apply(s, es, newTransaction) ==
  IF es = << >> THEN s
  ELSE LET e == Head(es)
           s1 == CASE e.store = "cash" ->
                        [s EXCEPT !.cash = updateBalance(@, e.currency, e.delta)]
                   [] e.store = "bank" ->
                        [s EXCEPT !.bank = updateBankBalance(@, e.bankId, e.currency, e.delta)]
                   [] e.store = "log" ->
                        [s EXCEPT !.transactions = Prepend(newTransaction, @)]
       IN Apply(s1, Tail(es), newTransaction)

Inputs(ops, banks, amounts, rates, calcs, dates) ==
  [date : dates, currencyOperation : ops, bankId : banks, amount : amounts,
   exchangeRate : rates, calculatedAmount : calcs]

AddTransaction(t, id) ==
  /\ \/ /\ BankMissing(t.bankId)
        /\ call' = [kind |-> "post", input |-> t, outcome |-> "error"]
        /\ trace' = << >>
        /\ UNCHANGED <<cash, bank, transactions, history>>
     \/ /\ ~BankMissing(t.bankId)
        /\ LET newTransaction == NewTransaction(t, id)
               s == Apply([cash |-> cash, bank |-> bank, transactions |-> transactions],
                          HandlerEffects(t), newTransaction)
           IN /\ cash' = s.cash
              /\ bank' = s.bank
              /\ transactions' = s.transactions
              /\ history' = Append(history, newTransaction)
        /\ call' = [kind |-> "post", input |-> t, outcome |-> "ok"]
        /\ trace' = HandlerEffects(t)
  /\ UNCHANGED <<result, form, submitted>>

----------------------------------------------------------------------------
(* getTransactionsByDate *)

InDateRange_EndExclusive(transaction, startDate, endDate) ==
  transaction.date >= startDate /\ transaction.date < endDate

InDateRange(transaction, startDate, endDate) ==
  transaction.date >= startDate /\ transaction.date <= endDate

\* Array.prototype.filter
RECURSIVE Filter(_, _, _)
Filter(list, startDate, endDate) ==
  IF list = << >> THEN << >>
  ELSE (IF InDateRange(Head(list), startDate, endDate) THEN << Head(list) >> ELSE << >>)
       \o Filter(Tail(list), startDate, endDate)

GetTransactionsByDate(startDate, endDate) ==
  /\ result' = Filter(transactions, startDate, endDate)
  /\ call' = [kind |-> "query", startDate |-> startDate, endDate |-> endDate]
  /\ trace' = << >>
  /\ UNCHANGED <<cash, bank, transactions, history, form, submitted>>

----------------------------------------------------------------------------
(* TransactionForm.  Only the fields the effect reads and writes are       *)
(* modelled; clientId and operationType are taken to be filled in, so the  *)
(* schema's verdict depends on the modelled fields alone.                  *)

FUndefined == [k |-> "undefined"]

FNaN == [k |-> "NaN"]

\* a number n / d (integers are n / 1)
FNumber(n, d) == [k |-> "number", n |-> n, d |-> d]

FormOperations == CurrencyOperations \cup {""}

AmountEntries == {FNaN, FNumber(-1, 1), FNumber(0, 1), FNumber(2, 1), FNumber(4, 1)}

ExchangeRateEntries == {FNaN, FNumber(-2, 1), FNumber(0, 1), FNumber(2, 1)}

FTruthy(x) == x.k = "number" /\ x.n # 0

\* registering an input with valueAsNumber: an empty input reads as NaN
Mounted(x) == IF x = FUndefined THEN FNaN ELSE x

\* amount / exchangeRate for BUY, amount * exchangeRate for SELL
CalculatedAmount(currencyOperation, amount, exchangeRate) ==
  IF IncludesBuy(currencyOperation)
  THEN FNumber(amount.n * exchangeRate.d, amount.d * exchangeRate.n)
  ELSE FNumber(amount.n * exchangeRate.n, amount.d * exchangeRate.d)

\* the body of React.useEffect, run on the values f after a change
Effect(f) ==
  IF /\ FTruthy(f.amount)
     /\ FTruthy(f.exchangeRate)
     /\ (IncludesBuy(f.currencyOperation) \/ IncludesSell(f.currencyOperation))
  THEN [f EXCEPT !.calculatedAmount =
          CalculatedAmount(f.currencyOperation, f.amount, f.exchangeRate)]
  ELSE f

\* the inputs rendered for the selected operation are registered
Render(f) ==
  [f EXCEPT
     !.amount = IF f.currencyOperation # "" THEN Mounted(@) ELSE @,
     !.exchangeRate = IF IncludesBuy(f.currencyOperation) \/ IncludesSell(f.currencyOperation)
                      THEN Mounted(@) ELSE @]

\* transactionSchema (the modelled fields)
SchemaAccepts(f) ==
  /\ f.currencyOperation # ""
  /\ f.amount.k = "number" /\ f.amount.n * f.amount.d >= 0
  /\ f.exchangeRate.k \in {"undefined", "number"}
  /\ f.calculatedAmount.k \in {"undefined", "number"}

SetCurrencyOperation(op) ==
  /\ form' = Effect(Render([form EXCEPT !.currencyOperation = op]))
  /\ submitted' = << >>
  /\ UNCHANGED storeVars

SetAmount(v) ==
  /\ form.currencyOperation # ""
  /\ form' = Effect([form EXCEPT !.amount = v])
  /\ submitted' = << >>
  /\ UNCHANGED storeVars

SetExchangeRate(v) ==
  /\ IncludesBuy(form.currencyOperation) \/ IncludesSell(form.currencyOperation)
  /\ form' = Effect([form EXCEPT !.exchangeRate = v])
  /\ submitted' = << >>
  /\ UNCHANGED storeVars

\* handleSubmit(handleFormSubmit): the data goes to onSubmit when the schema accepts it
Submit ==
  /\ SchemaAccepts(form)
  /\ submitted' = << form >>
  /\ UNCHANGED form
  /\ UNCHANGED storeVars

----------------------------------------------------------------------------
(* Specifications *)

Init ==
  /\ cash = [c \in Currencies |-> 0]
  /\ bank = [b \in BankIds |-> [c \in Currencies |-> 0]]
  /\ transactions = << >>
  /\ history = << >>
  /\ call = [kind |-> "none"]
  /\ trace = << >>
  /\ result = << >>
  /\ form = [currencyOperation |-> "", amount |-> FUndefined,
             exchangeRate |-> FUndefined, calculatedAmount |-> FUndefined]
  /\ submitted = << >>

\* Posting: one call of addTransaction with any input, made after at most
\* MaxPriorPosts earlier posts that set the balances up.  A call that threw
\* left the stores as they were, so nothing new is reached by going on from it.
PostInputs == Inputs(CurrencyOperations, BankIdValues, Amounts, ExchangeRates,
                     CalculatedAmounts, {1})

IsPriorPost(transaction) ==
  /\ transaction.amount = 2
  /\ transaction.exchangeRate = Some(2)
  /\ transaction.calculatedAmount = Some(3)

NextPost ==
  /\ Len(transactions) <= MaxPriorPosts
  /\ \A i \in 1..Len(transactions) : IsPriorPost(transactions[i])
  /\ ~(call.kind = "post" /\ call.outcome = "error")
  /\ \E t \in PostInputs : AddTransaction(t, "r1")

SpecPost == Init /\ [][NextPost]_vars

\* The log: posts that differ in date and id, and date queries.
LogInputs == Inputs({"ARS_IN"}, {Some("B1")}, {2}, {Undefined},
                    {Undefined}, Dates)

NextLog ==
  \/ \E t \in LogInputs, id \in Ids :
       /\ Len(transactions) < MaxLog
       /\ AddTransaction(t, id)
  \/ \E startDate \in QueryDates, endDate \in QueryDates :
       GetTransactionsByDate(startDate, endDate)

SpecLog == Init /\ [][NextLog]_vars

NextForm ==
  \/ \E op \in FormOperations : SetCurrencyOperation(op)
  \/ \E v \in AmountEntries : SetAmount(v)
  \/ \E v \in ExchangeRateEntries : SetExchangeRate(v)
  \/ Submit

SpecForm == Init /\ [][NextForm]_vars

Next == NextPost \/ NextLog \/ NextForm

Spec == Init /\ [][Next]_vars

----------------------------------------------------------------------------
(* Vocabulary of the properties *)

IsPost(c) == c.kind = "post"

Failed(c) == c.kind = "post" /\ c.outcome = "error"

Succeeded(c) == c.kind = "post" /\ c.outcome = "ok"

IsQuery(c) == c.kind = "query"

BankPresent(bankId) == bankId \in {Some(b) : b \in BankIds}

BankAbsent(bankId) == bankId \in {Undefined, Some("")}

Deltas(ars, usd, usdt) ==
  [c \in Currencies |-> CASE c = "ARS" -> ars [] c = "USD" -> usd [] c = "USDT" -> usdt]

\* the posting table: cash deltas of an operation with amount a, calculatedAmount c
TableCash(op, a, c) ==
  CASE op = "ARS_IN" -> Deltas(a, 0, 0)
    [] op = "ARS_OUT" -> Deltas(-a, 0, 0)
    [] op = "USDT_BUY" -> Deltas(-a, 0, c)
    [] op = "USDT_SELL" -> Deltas(c, 0, -a)
    [] op = "USDT_IN" -> Deltas(0, 0, a)
    [] op = "USDT_OUT" -> Deltas(0, 0, -a)
    [] op = "USD_IN" -> Deltas(0, a, 0)
    [] op = "USD_OUT" -> Deltas(0, -a, 0)
    [] op = "USD_BUY" -> Deltas(-a, c, 0)
    [] op = "USD_SELL" -> Deltas(c, -a, 0)

\* the posting table: deltas of the named bank
TableBank(op, a, c) ==
  CASE op = "ARS_IN" -> Deltas(-a, 0, 0)
    [] op = "ARS_OUT" -> Deltas(a, 0, 0)
    [] op = "USDT_BUY" -> Deltas(-a, 0, 0)
    [] op = "USDT_SELL" -> Deltas(c, 0, 0)
    [] op = "USDT_IN" -> Deltas(0, 0, 0)
    [] op = "USDT_OUT" -> Deltas(0, 0, 0)
    [] op = "USD_IN" -> Deltas(0, -a, 0)
    [] op = "USD_OUT" -> Deltas(0, a, 0)
    [] op = "USD_BUY" -> Deltas(-a, 0, 0)
    [] op = "USD_SELL" -> Deltas(c, 0, 0)

\* the step changed the balances by exactly dCash and, for bank b, dBank
BalancesMovedBy(dCash, b, dBank) ==
  /\ \A cur \in Currencies : cash'[cur] = cash[cur] + dCash[cur]
  /\ \A bk \in BankIds, cur \in Currencies :
       bank'[bk][cur] = bank[bk][cur] + (IF bk = b THEN dBank[cur] ELSE 0)

\* the step put exactly one entry, carrying the input t, in front of the log
LoggedInFront(t) ==
  /\ Len(transactions') = Len(transactions) + 1
  /\ \A i \in 1..Len(transactions) : transactions'[i + 1] = transactions[i]
  /\ LET n == transactions'[1]
     IN /\ n.date = t.date /\ n.currencyOperation = t.currencyOperation
        /\ n.bankId = t.bankId /\ n.amount = t.amount
        /\ n.exchangeRate = t.exchangeRate
        /\ n.calculatedAmount = t.calculatedAmount

SomeBalanceNonZero ==
  \/ \E cur \in Currencies : cash[cur] # 0
  \/ \E bk \in BankIds, cur \in Currencies : bank[bk][cur] # 0

----------------------------------------------------------------------------
(* C1: for every operation that requires a bank and every amount,          *)
(* addTransaction called with bankId absent or empty fails with an error   *)
(* and leaves every cash balance, every bank balance and the log as they   *)
(* were.                                                                   *)
C1_MissingBankRejected ==
  [][ (/\ IsPost(call')
       /\ RequiresBank(call'.input.currencyOperation)
       /\ BankAbsent(call'.input.bankId))
      => (Failed(call') /\ UNCHANGED <<cash, bank, transactions>>) ]_vars

C1_Witness ==
  /\ Failed(call)
  /\ RequiresBank(call.input.currencyOperation)
  /\ call.input.bankId = Some("")
  /\ call.input.amount = 2
  /\ SomeBalanceNonZero
  /\ Len(transactions) = 1

(* C2: addTransaction called with USDT_IN, USDT_OUT, USD_IN or USD_OUT and *)
(* no bankId does not fail: it applies the operation's cash delta and      *)
(* appends the transaction to the log.                                     *)
C2_NoBankOperationsPostWithoutBank ==
  [][ (/\ IsPost(call')
       /\ call'.input.currencyOperation \in NO_BANK_OPERATIONS
       /\ call'.input.bankId = Undefined)
      => (/\ Succeeded(call')
          /\ \A cur \in Currencies :
               cash'[cur] = cash[cur]
                 + TableCash(call'.input.currencyOperation, call'.input.amount, 0)[cur]
          /\ LoggedInFront(call'.input)) ]_vars

(* C3: addTransaction called with a negative amount, or with a BUY/SELL    *)
(* operation whose exchangeRate is zero or negative, is rejected before    *)
(* any balance mutation: no cash balance, bank balance or log entry        *)
(* changes.                                                                *)
C3_InvalidNumbersRejected ==
  [][ (/\ IsPost(call')
       /\ \/ call'.input.amount < 0
          \/ /\ IncludesBuy(call'.input.currencyOperation)
                  \/ IncludesSell(call'.input.currencyOperation)
             /\ call'.input.exchangeRate # Undefined
             /\ call'.input.exchangeRate[1] <= 0)
      => (Failed(call') /\ UNCHANGED <<cash, bank, transactions>>) ]_vars

(* C4: with bankId = b present, amount a and calculatedAmount c present    *)
(* and non-zero, a successful addTransaction changes the balances by       *)
(* exactly the posting table, for each of the ten operations; every other  *)
(* cash currency and every other (bank, currency) entry is unchanged.      *)
C4_PostingTable ==
  [][ (/\ Succeeded(call')
       /\ BankPresent(call'.input.bankId)
       /\ Truthy(call'.input.calculatedAmount))
      => LET t == call'.input
         IN BalancesMovedBy(
              TableCash(t.currencyOperation, t.amount, t.calculatedAmount[1]),
              t.bankId[1],
              TableBank(t.currencyOperation, t.amount, t.calculatedAmount[1])) ]_vars

C4_Witness ==
  /\ Succeeded(call)
  /\ call.input.currencyOperation = "USDT_SELL"
  /\ call.input.bankId = Some("B2")
  /\ call.input.amount = 2
  /\ call.input.calculatedAmount = Some(3)
  /\ Len(transactions) = 2
  /\ transactions[2].currencyOperation = "ARS_IN"
  /\ transactions[2].bankId = Some("B1")
  /\ cash = Deltas(5, 0, -2)
  /\ bank["B1"] = Deltas(-2, 0, 0)
  /\ bank["B2"] = Deltas(3, 0, 0)

(* C5: a USDT_IN or USDT_OUT transaction never changes any bank balance    *)
(* entry, whatever bankId it carries (present, absent, or naming any       *)
(* bank).                                                                  *)
C5_UsdtInOutLeaveBanksAlone ==
  [][ (/\ IsPost(call')
       /\ call'.input.currencyOperation \in {"USDT_IN", "USDT_OUT"})
      => bank' = bank ]_vars

C5_Witness ==
  /\ Succeeded(call)
  /\ call.input.currencyOperation = "USDT_IN"
  /\ call.input.bankId = Some("B1")
  /\ call.input.amount = 2
  /\ cash["USDT"] = 2
  /\ Len(transactions) = 2
  /\ bank["B1"]["ARS"] # 0

(* C8: for a BUY or SELL operation whose calculatedAmount is absent or     *)
(* zero, addTransaction with a bankId succeeds and applies only the        *)
(* primary leg: the BUY operations change only cash ARS by -amount and     *)
(* the bank's ARS by -amount; the SELL operations change only cash USDT    *)
(* (resp. USD) by -amount and no bank balance; the transaction is          *)
(* appended to the log.                                                    *)
C8_PrimaryLegOnly ==
  [][ (/\ IsPost(call')
       /\ BankPresent(call'.input.bankId)
       /\ IncludesBuy(call'.input.currencyOperation)
            \/ IncludesSell(call'.input.currencyOperation)
       /\ ~Truthy(call'.input.calculatedAmount))
      => LET t == call'.input
             a == t.amount
             op == t.currencyOperation
         IN /\ Succeeded(call')
            /\ BalancesMovedBy(
                 CASE op = "USDT_BUY" -> Deltas(-a, 0, 0)
                   [] op = "USD_BUY" -> Deltas(-a, 0, 0)
                   [] op = "USDT_SELL" -> Deltas(0, 0, -a)
                   [] op = "USD_SELL" -> Deltas(0, -a, 0),
                 t.bankId[1],
                 IF IncludesBuy(op) THEN Deltas(-a, 0, 0) ELSE Deltas(0, 0, 0))
            /\ LoggedInFront(t) ]_vars

C8_Witness ==
  /\ Succeeded(call)
  /\ call.input.currencyOperation = "USDT_SELL"
  /\ call.input.calculatedAmount = Undefined
  /\ call.input.amount = 2
  /\ call.input.bankId = Some("B1")
  /\ cash = Deltas(0, 0, -2)
  /\ bank["B1"] = Deltas(0, 0, 0)
  /\ Len(transactions) = 1

(* C9 *)
Rank(e) == CASE e.store = "cash" -> 1 [] e.store = "bank" -> 2 [] e.store = "log" -> 3

LogAppendedLast(es) ==
  /\ Len(es) >= 1
  /\ es[Len(es)].store = "log"
  /\ \A i \in 1..(Len(es) - 1) : es[i].store # "log"

(* C9 as stated: within one successful addTransaction, for every operation *)
(* the side effects happen in the order: all cash balance updates, then    *)
(* the bank balance update (if any), then the append to the log.           *)
C9_CashThenBankThenLog ==
  Succeeded(call) =>
    /\ LogAppendedLast(trace)
    /\ \A i \in 1..Len(trace), j \in 1..Len(trace) :
         i < j => Rank(trace[i]) <= Rank(trace[j])

(* C9 as amended: within one successful addTransaction the append to the   *)
(* log comes after every balance update of that post and the first side    *)
(* effect is a cash update; a bank update precedes a cash update only for  *)
(* USDT_BUY and USD_BUY with a non-zero calculatedAmount, where the bank   *)
(* ARS debit comes after the cash ARS debit and before the cash credit of  *)
(* calculatedAmount.                                                       *)
C9_LogLastCashFirst ==
  Succeeded(call) =>
    /\ LogAppendedLast(trace)
    /\ trace[1].store = "cash"
    /\ \A i \in 1..Len(trace), j \in 1..Len(trace) :
         (i < j /\ trace[i].store = "bank" /\ trace[j].store = "cash")
           => /\ IncludesBuy(call.input.currencyOperation)
              /\ Truthy(call.input.calculatedAmount)
              /\ i = 2 /\ j = 3
              /\ trace[1] = CashEffect("ARS", -call.input.amount)
              /\ trace[2] = BankEffect(call.input.bankId[1], "ARS", -call.input.amount)
              /\ trace[3].currency # "ARS"
              /\ trace[3].delta = call.input.calculatedAmount[1]

C9_Witness ==
  /\ Succeeded(call)
  /\ call.input.currencyOperation = "USD_BUY"
  /\ call.input.calculatedAmount = Some(3)
  /\ Len(trace) = 4
  /\ trace[2].store = "bank"
  /\ trace[3].store = "cash"
  /\ cash["USD"] = 3

----------------------------------------------------------------------------
(* The log *)

\* the k-th smallest member of a set of indices
KthSmallest(idx, k) == CHOOSE i \in idx : Cardinality({j \in idx : j < i}) = k - 1

(* C6: each successful addTransaction adds exactly one entry to the log,   *)
(* at the front, and the entries already there keep their content and      *)
(* order; no operation removes or modifies a logged transaction; after k   *)
(* successful posts the log has k entries in reverse order of submission.  *)
C6_LogGrowsAtFront ==
  [][ /\ Succeeded(call') => LoggedInFront(call'.input)
      /\ ~Succeeded(call') => transactions' = transactions
      /\ Len(transactions') = Len(history')
      /\ \A i \in 1..Len(history') :
           transactions'[i] = history'[Len(history') - i + 1] ]_vars

C6_Witness ==
  /\ Succeeded(call)
  /\ Len(transactions) = 3
  /\ transactions[1].date = 3
  /\ transactions[2].date = 1
  /\ transactions[3].date = 2
  /\ history[1].date = 2
  /\ history[3].date = 3

(* C7: getTransactionsByDate(start, end) returns exactly the logged        *)
(* transactions whose date d satisfies start <= d <= end, each once and in *)
(* log order; it changes neither the log nor any balance, so repeating the *)
(* call returns the same result, and a range covering every date returns   *)
(* all logged transactions.                                                *)
C7_QueryByDate ==
  [][ IsQuery(call') =>
        LET s == call'.startDate
            e == call'.endDate
            idx == {i \in 1..Len(transactions) :
                      s <= transactions[i].date /\ transactions[i].date <= e}
        IN /\ UNCHANGED <<cash, bank, transactions>>
           /\ Len(result') = Cardinality(idx)
           /\ \A k \in 1..Len(result') : result'[k] = transactions[KthSmallest(idx, k)]
           /\ (\A i \in 1..Len(transactions) :
                 s <= transactions[i].date /\ transactions[i].date <= e)
                => result' = transactions
           /\ call = call' => result' = result ]_vars

C7_Witness ==
  /\ IsQuery(call)
  /\ call.startDate = 1
  /\ call.endDate = 2
  /\ Len(transactions) = 3
  /\ transactions[1].date = 2
  /\ transactions[2].date = 3
  /\ transactions[3].date = 1
  /\ result = << transactions[1], transactions[3] >>

----------------------------------------------------------------------------
(* The form *)

IsBuyOrSell(op) == IncludesBuy(op) \/ IncludesSell(op)

(* C10: after any sequence of edits to the operation, amount and           *)
(* exchangeRate fields, every input the form submits for a BUY or SELL     *)
(* operation has exchangeRate > 0 and calculatedAmount equal to            *)
(* amount / exchangeRate (BUY) or amount * exchangeRate (SELL) of the      *)
(* values being submitted.                                                 *)
C10_SubmittedAmountsConsistent ==
  (submitted # << >> /\ IsBuyOrSell(submitted[1].currencyOperation)) =>
    LET d == submitted[1]
        a == d.amount
        r == d.exchangeRate
        c == d.calculatedAmount
    IN /\ r.k = "number" /\ r.n * r.d > 0
       /\ c.k = "number"
       /\ IF IncludesBuy(d.currencyOperation)
          THEN c.n * (a.d * r.n) = c.d * (a.n * r.d)
          ELSE c.n * (a.d * r.d) = c.d * (a.n * r.n)

\* a calculatedAmount computed from an earlier amount is handed to onSubmit
C10_StaleCalculatedAmountSubmitted ==
  /\ submitted # << >>
  /\ submitted[1].currencyOperation = "USDT_BUY"
  /\ submitted[1].amount = FNumber(0, 1)
  /\ submitted[1].exchangeRate = FNumber(2, 1)
  /\ submitted[1].calculatedAmount = FNumber(4, 2)

====
